---- MODULE Spec2Model ----
(***************************************************************************)
(* A model of the SDE command line tool (suisei.sde): the startup that     *)
(* reads the configuration file, the component registry that               *)
(* SDE._load_configuration fills from the component descriptor files, the  *)
(* ComponentDescriptor / BuilderLoader parsing of one record, the          *)
(* BuildExecutor (dependency walk and build dispatch) with the builders,   *)
(* the UnitTestExecutor and the other modes of SDE.execute.                *)
(*                                                                         *)
(* A configuration record (a Python dict parsed from JSON) is a TLA+       *)
(* function whose DOMAIN is the set of keys present; a lookup of a key     *)
(* outside the DOMAIN is Python's KeyError.  A string that the code        *)
(* transforms (build.type, lower-cased) is a tuple of characters.          *)
(***************************************************************************)
EXTENDS Naturals, Sequences, FiniteSets, TLC

VARIABLES
    components,   \* SDE._components: registry, component id -> descriptor
    file_list,    \* the descriptor files the load loop has taken so far
    outcomes,     \* per file taken: what ComponentDescriptor(...) raised
    desc_bound,   \* whether the local name `desc` of the load loop is bound
    pc,           \* position of the program
    error,        \* the exception that ended the current operation ("" none)
    target,       \* the component argument of the build request
    stack,        \* call stack of ComponentDescriptor.get_all_dependencies
    ret,          \* value returned by the last get_all_dependencies call
    builds,       \* component ids whose builder's build() was invoked
    commands,     \* the calls of _subprocess_call, in order
    config,       \* content of the configuration file
    mode,         \* the mode SDE.execute was called with ("" not yet)
    cwd,          \* the process's current working directory
    build_env,    \* what the environment did during execute_build
    pending,      \* unit test: the selected components not yet visited
    test_success, \* unit test: the flag of UnitTestExecutor.execute
    suites,       \* unit test: the suites run, with their results
    handlers,     \* the modes whose handler SDE.execute has called, in order
    executed,     \* the executors whose execute() has been entered
    exit_status   \* how the process ended: "" (running), "zero", "nonzero"

vars == <<components, file_list, outcomes, desc_bound, pc, error, target,
          stack, ret, builds, commands, config, mode, cwd, build_env,
          pending, test_success, suites, handlers, executed, exit_status>>

\* The variables of the unit test executor.
utVars == <<pending, test_success, suites>>

\* The variables of main.
mainVars == <<handlers, executed, exit_status>>

(***************************************************************************)
(* Bounds of the model.                                                    *)
(***************************************************************************)
\* Number of *.component files the load loop reads.
MaxFiles == 3
\* Longest dependency list of a descriptor.
MaxDeps == 2
\* Depth at which the interpreter stops a recursion with RecursionError
\* (sys.getrecursionlimit(); larger than any acyclic walk over Ids).
RecursionLimit == 4

\* Component ids that occur in descriptor files.
Ids == {"A", "B", "C"}
\* An id no descriptor file declares.
UnknownId == "Z"

(***************************************************************************)
(* Strings as character tuples, and str.lower().                           *)
(***************************************************************************)
UpperChars == <<"A","B","C","D","E","F","G","H","I","J","K","L","M",
                "N","O","P","Q","R","S","T","U","V","W","X","Y","Z">>
LowerChars == <<"a","b","c","d","e","f","g","h","i","j","k","l","m",
                "n","o","p","q","r","s","t","u","v","w","x","y","z">>

LowerChar(c) ==
    IF \E i \in DOMAIN UpperChars : UpperChars[i] = c
    THEN LowerChars[CHOOSE i \in DOMAIN UpperChars : UpperChars[i] = c]
    ELSE c

Lower(s) == [i \in DOMAIN s |-> LowerChar(s[i])]

UpperChar(c) ==
    IF \E i \in DOMAIN LowerChars : LowerChars[i] = c
    THEN UpperChars[CHOOSE i \in DOMAIN LowerChars : LowerChars[i] = c]
    ELSE c

\* The spelling of `name` with the characters at the positions `upper` in
\* upper case.
Spell(name, upper) ==
    [i \in DOMAIN name |-> IF i \in upper THEN UpperChar(name[i]) ELSE name[i]]

S_cmake         == <<"c","m","a","k","e">>
S_make          == <<"m","a","k","e">>
S_protobuf      == <<"p","r","o","t","o","b","u","f">>
S_sphinx        == <<"s","p","h","i","n","x">>
S_artifactory   == <<"a","r","t","i","f","a","c","t","o","r","y">>
S_python        == <<"p","y","t","h","o","n">>
S_deb           == <<"d","e","b">>
S_docker        == <<"d","o","c","k","e","r">>
S_multistage    == <<"m","u","l","t","i","s","t","a","g","e">>
S_content       == <<"c","o","n","t","e","n","t">>
S_versionbumper == <<"v","e","r","s","i","o","n","b","u","m","p","e","r">>
S_bash          == <<"b","a","s","h">>
S_wheel         == <<"w","h","e","e","l">>
S_pip           == <<"p","i","p">>

(***************************************************************************)
(* BuildTypes (an IntEnum).                                                *)
(***************************************************************************)
UNKNOWN       == 0
CMAKE         == 1
MAKE          == 2
PROTOBUF      == 3
SPHINX        == 4
ARTIFACTORY   == 5
PYTHON        == 6
DEB           == 7
DOCKER        == 8
MULTISTAGE    == 9
CONTENT       == 10
VERSIONBUMPER == 11
BASH          == 12
WHEEL         == 13
PIP           == 14

\* The lower-cased names of the members of BuildTypes other than UNKNOWN.
EnumeratedTypeNames ==
    { S_cmake, S_make, S_protobuf, S_sphinx, S_artifactory, S_python, S_deb,
      S_docker, S_multistage, S_content, S_versionbumper, S_bash, S_wheel,
      S_pip }

\* Python's None.
None == [none |-> TRUE]

\* os.path.expanduser and os.path.abspath: the result is a path derived
\* from the argument, not the argument.
ExpandUser(p) == [expanduser |-> p]
AbsPath(p) == [abspath |-> p]
\* A path or string literal held in a field that may also hold None.
Str(s) == [str |-> s]

(***************************************************************************)
(* Dict access.                                                            *)
(***************************************************************************)
Has(d, k) == k \in DOMAIN d
Has2(d, k1, k2) == Has(d, k1) /\ Has(d[k1], k2)

(***************************************************************************)
(* int(): a JSON number, or a string of decimal digits.                    *)
(***************************************************************************)
Digits == <<"0","1","2","3","4","5","6","7","8","9">>

DigitValue(c) == (CHOOSE i \in DOMAIN Digits : Digits[i] = c) - 1

RECURSIVE ParseDigits(_)
ParseDigits(s) ==
    IF Len(s) = 0 THEN 0
    ELSE 10 * ParseDigits(SubSeq(s, 1, Len(s) - 1)) + DigitValue(s[Len(s)])

PyInt(v) == IF Has(v, "int") THEN v.int ELSE ParseDigits(v.str)

(***************************************************************************)
(* ComponentDescriptor.__init__: the fields before the record is parsed.   *)
(***************************************************************************)
EmptyDescriptor ==
    [ ID                |-> None,
      Name              |-> None,
      UnitTestOutDir    |-> None,
      UnitTestLogFormat |-> None,
      UnitTestLocation  |-> None,
      UnitTestVerbosity |-> None,
      BuildType         |-> UNKNOWN,
      Dependencies      |-> <<>>,
      BuilderConfig     |-> None,
      LinterDirectory   |-> None,
      build_target      |-> None ]

\* ComponentDescriptor.set_builder_config
set_builder_config(obj, builder_config) ==
    [obj EXCEPT !.BuilderConfig = builder_config]

(***************************************************************************)
(* BuilderLoader.  Each operator returns [error, obj]: the exception that  *)
(* left the call ("" when it returned) and the descriptor as the call      *)
(* left it.                                                                *)
(***************************************************************************)
\* The _load_<type>_builder methods whose config takes no argument.
LoadPlainBuilder(obj, build_type, variant) ==
    [ error |-> "",
      obj   |-> set_builder_config([obj EXCEPT !.BuildType = build_type],
                                   [variant |-> variant]) ]

\* A missing key leaves the sphinx type without a config.
LoadSphinxBuilderPartial(obj, descriptor) ==
    LET typed == [obj EXCEPT !.BuildType = SPHINX]
        build == descriptor["build"]
    IN  IF Has(build, "target") /\ Has(build, "sourcepath")
                                /\ Has(build, "targetpath")
        THEN [ error |-> "",
               obj   |-> set_builder_config(typed,
                            [ variant    |-> "SphinxBuilderConfig",
                              Target     |-> build["target"],
                              SourcePath |-> AbsPath(build["sourcepath"]),
                              TargetPath |-> AbsPath(build["targetpath"]) ]) ]
        ELSE [ error |-> "", obj |-> typed ]

\* BuilderLoader._load_sphinx_builder
LoadSphinxBuilder(obj, descriptor) ==
    LET typed == [obj EXCEPT !.BuildType = SPHINX]
        build == descriptor["build"]
    IN  IF Has(build, "target") /\ Has(build, "sourcepath")
                                /\ Has(build, "targetpath")
        THEN [ error |-> "",
               obj   |-> set_builder_config(typed,
                            [ variant    |-> "SphinxBuilderConfig",
                              Target     |-> build["target"],
                              SourcePath |-> AbsPath(build["sourcepath"]),
                              TargetPath |-> AbsPath(build["targetpath"]) ]) ]
        ELSE [ error |-> "KeyError", obj |-> typed ]

\* BuilderLoader._load_versionbumper_builder: VersionBumperBuilderConfig()
\* is called without its required argument `target`.
LoadVersionBumperBuilder(obj) ==
    [ error |-> "TypeError", obj |-> [obj EXCEPT !.BuildType = VERSIONBUMPER] ]

\* The else branch of the chain: no supported type has this name.
UnsupportedBuildTypeIgnored(obj, build_type) == [ error |-> "", obj |-> obj ]

UnsupportedBuildType(obj, build_type) ==
    [ error |-> "InvalidInputError", obj |-> obj ]

\* The if/elif chain of BuilderLoader.load on the lower-cased type.
DispatchBuilder(obj, descriptor, build_type) ==
    CASE build_type = S_cmake       -> LoadPlainBuilder(obj, CMAKE, "CMakeBuilderConfig")
      [] build_type = S_make        -> LoadPlainBuilder(obj, MAKE, "MakeBuilderConfig")
      [] build_type = S_protobuf    -> LoadPlainBuilder(obj, PROTOBUF, "ProtobufBuilderConfig")
      [] build_type = S_sphinx      -> LoadSphinxBuilder(obj, descriptor)
      [] build_type = S_artifactory -> LoadPlainBuilder(obj, ARTIFACTORY, "ArtifactoryBuilderConfig")
      [] build_type = S_python      -> LoadPlainBuilder(obj, PYTHON, "PythonBuilderConfig")
      [] build_type = S_deb         -> LoadPlainBuilder(obj, DEB, "DebBuilderConfig")
      [] build_type = S_docker      -> LoadPlainBuilder(obj, DOCKER, "DockerBuilderConfig")
      [] build_type = S_multistage  -> LoadPlainBuilder(obj, MULTISTAGE, "MultiStageBuilderConfig")
      [] build_type = S_content     -> LoadPlainBuilder(obj, CONTENT, "ContentBuilderConfig")
      [] build_type = S_versionbumper -> LoadVersionBumperBuilder(obj)
      [] OTHER -> UnsupportedBuildType(obj, build_type)

\* The except KeyError branch of BuilderLoader.load.
BuildConfigNotFoundKeepsType(obj) ==
    [ error |-> "", obj |-> [obj EXCEPT !.build_target = Str("")] ]

BuildConfigNotFoundRaises(obj) == [ error |-> "InvalidInputError", obj |-> obj ]

BuildConfigNotFound(obj) ==
    [ error |-> "",
      obj   |-> [obj EXCEPT !.BuildType = UNKNOWN, !.build_target = Str("")] ]

\* BuilderLoader.load
BuilderLoaderLoad(obj, descriptor) ==
    IF ~Has2(descriptor, "build", "type")
    THEN BuildConfigNotFound(obj)
    ELSE LET r == DispatchBuilder(obj, descriptor,
                                  Lower(descriptor["build"]["type"]))
         IN  IF r.error = "KeyError" THEN BuildConfigNotFound(r.obj) ELSE r

(***************************************************************************)
(* ComponentDescriptor._load_from_descriptor, field by field.              *)
(***************************************************************************)
\* The id stands in for a missing name.
LoadNameFromId(obj, descriptor) ==
    [obj EXCEPT !.Name = IF Has(descriptor, "name") THEN descriptor["name"]
                         ELSE descriptor["id"]]

LoadName(obj, descriptor) ==
    [obj EXCEPT !.Name = IF Has(descriptor, "name") THEN descriptor["name"]
                         ELSE "UNKNOWN"]

\* The three assignments share one try block: the first missing key ends it
\* and the assignments before it stay.
LoadUnitTest(obj, descriptor) ==
    IF ~Has2(descriptor, "unittest", "outdir") THEN obj
    ELSE LET o1 == [obj EXCEPT !.UnitTestOutDir =
                        ExpandUser(descriptor["unittest"]["outdir"])]
         IN  IF ~Has(descriptor["unittest"], "logformat") THEN o1
             ELSE LET o2 == [o1 EXCEPT !.UnitTestLogFormat =
                                descriptor["unittest"]["logformat"]]
                  IN  IF ~Has(descriptor["unittest"], "testdir") THEN o2
                      ELSE [o2 EXCEPT !.UnitTestLocation =
                                AbsPath(descriptor["unittest"]["testdir"])]

\* The verbosity is read only from a complete unittest section.
LoadVerbosityUnset(obj, descriptor) ==
    [obj EXCEPT !.UnitTestVerbosity =
        IF Has2(descriptor, "unittest", "verbosity")
           /\ Has(descriptor["unittest"], "outdir")
        THEN PyInt(descriptor["unittest"]["verbosity"])
        ELSE 0]

LoadVerbosity(obj, descriptor) ==
    [obj EXCEPT !.UnitTestVerbosity =
        IF Has2(descriptor, "unittest", "verbosity")
        THEN PyInt(descriptor["unittest"]["verbosity"])
        ELSE 1]

LoadLinter(obj, descriptor) ==
    [obj EXCEPT !.LinterDirectory =
        IF Has2(descriptor, "linter", "linterdir")
        THEN AbsPath(ExpandUser(descriptor["linter"]["linterdir"]))
        ELSE Str("./")]

\* The first try block: the id, or InvalidInputError.
LoadIdDefaulted(obj, descriptor) ==
    [ error |-> "",
      obj   |-> [obj EXCEPT !.ID = IF Has(descriptor, "id")
                                   THEN descriptor["id"] ELSE "UNKNOWN"] ]

LoadId(obj, descriptor) ==
    IF Has(descriptor, "id")
    THEN [ error |-> "", obj |-> [obj EXCEPT !.ID = descriptor["id"]] ]
    ELSE [ error |-> "InvalidInputError", obj |-> obj ]

\* ComponentDescriptor._load_from_descriptor
LoadFromDescriptor(obj, descriptor) ==
    LET r == LoadId(obj, descriptor)
    IN  IF r.error # "" THEN r
        ELSE BuilderLoaderLoad(
                LoadLinter(LoadVerbosity(LoadUnitTest(
                    LoadName(r.obj, descriptor), descriptor), descriptor),
                    descriptor),
                descriptor)

\* ComponentDescriptor(descriptor, application): the error re-raised by
\* __init__, and the object (which the caller gets only when error = "").
NewComponentDescriptor(descriptor) == LoadFromDescriptor(EmptyDescriptor, descriptor)

(***************************************************************************)
(* The component descriptor files of the component path.                   *)
(***************************************************************************)
BuildCMake == [type |-> <<"C","M","a","k","e">>]
BuildSphinx ==
    [ type       |-> S_sphinx,
      target     |-> "html",
      sourcepath |-> "doc",
      targetpath |-> "out" ]
BuildSphinxNoPaths == [type |-> <<"S","p","h","i","n","x">>, target |-> "html"]
BuildNonsense == [type |-> <<"n","o","n","s","e","n","s","e">>]

\* A complete unittest section.
UnitTestFull ==
    [outdir |-> "out", logformat |-> Str("tap"), testdir |-> "tests"]

\* Records the loader accepts.
WellFormedRecords ==
    { [id |-> i] : i \in Ids }
    \cup { [id |-> i, build |-> b] : i \in Ids, b \in {BuildCMake, BuildSphinx} }
    \cup { [id |-> "C", name |-> "c", build |-> BuildSphinxNoPaths],
           [id |-> "A", name |-> "a", dependencies |-> <<"B", "C">>] }
    \cup { [id |-> i, unittest |-> UnitTestFull] : i \in {"A", "B"} }
    \cup { [id |-> "C", unittest |-> [outdir |-> "out"]] }

\* Records the loader rejects with InvalidInputError.
MalformedRecords ==
    { [id |-> i, build |-> BuildNonsense] : i \in Ids }
    \cup { [name |-> "noid"], [name |-> "noid", build |-> BuildCMake] }

Records == WellFormedRecords \cup MalformedRecords

(***************************************************************************)
(* SDE.__init__ / SDE._load_configuration: the loop over the descriptor    *)
(* files.                                                                  *)
(***************************************************************************)
\* The configuration file with every key the startup reads.
FullConfig ==
    [ version           |-> "1.0.0",
      logging           |-> [ logdir   |-> "log",
                              logfile  |-> "sde.log",
                              loglevel |-> "debug" ],
      componentpath     |-> "components",
      documentationpath |-> "doc" ]

\* A dict without one of its keys.
Without(d, k) == [x \in DOMAIN d \ {k} |-> d[x]]

\* The configuration files: complete, or with one key missing.
Configs ==
    {FullConfig}
    \cup { Without(FullConfig, k) :
               k \in {"version", "logging", "componentpath",
                      "documentationpath"} }
    \cup { [FullConfig EXCEPT !.logging = Without(@, k)] :
               k \in {"logdir", "logfile", "loglevel"} }

\* The order in which main looks at the mode flags.
ModeOrder ==
    << "version", "build", "unittest", "featuretest", "systemtest",
       "performancetest", "linter", "coverage", "install", "release",
       "opendocs" >>

ModeIndex(m) == CHOOSE i \in DOMAIN ModeOrder : ModeOrder[i] = m

\* main comes to the flag of mode m after the handler of mode `last`
\* ("" when no handler has run).
Precedes(last, m) ==
    IF last = "" THEN TRUE ELSE ModeIndex(last) < ModeIndex(m)

\* main finds the flag of mode m set and calls SDE.execute(mode=m), which
\* calls the handler _on_execute_<m>.
EnterHandler(m) ==
    /\ Precedes(mode, m)
    /\ mode' = m
    /\ handlers' = Append(handlers, m)

\* os.getcwd() when the process starts.
StartDir == AbsPath(Str("."))

Init ==
    /\ components = << >>
    /\ file_list = << >>
    /\ outcomes = << >>
    /\ desc_bound = FALSE
    /\ pc = "start"
    /\ error = ""
    /\ target = ""
    /\ stack = << >>
    /\ ret = << >>
    /\ builds = << >>
    /\ commands = << >>
    /\ config \in Configs
    /\ mode = ""
    /\ cwd = StartDir
    /\ build_env = None
    /\ pending = {}
    /\ test_success = TRUE
    /\ suites = << >>
    /\ handlers = << >>
    /\ executed = << >>
    /\ exit_status = ""

\* SDE._load_configuration up to the loop: the version and the logging
\* keys are read (SystemExit when one is missing), the component path is
\* read or defaulted, and SystemExit is raised when it is no directory.
LoadConfiguration ==
    /\ pc = "start"
    /\ \E isdir \in BOOLEAN :
         IF \/ ~Has(config, "version")
            \/ ~Has2(config, "logging", "logdir")
            \/ ~Has2(config, "logging", "logfile")
            \/ ~Has2(config, "logging", "loglevel")
            \/ ~isdir
         THEN /\ pc' = "exited"
              /\ error' = "SystemExit"
         ELSE /\ pc' = "loading"
              /\ UNCHANGED error
    /\ UNCHANGED <<components, file_list, outcomes, desc_bound, target, stack,
                   ret, builds, commands, config, mode, cwd, build_env,
                   utVars>>
    /\ UNCHANGED mainVars

\* self._components[desc.ID] = desc
StoreComponentByName(registry, obj) == (obj.Name :> obj) @@ registry

\* An id that is already a key keeps its descriptor.
StoreComponentKeepFirst(registry, obj) == registry @@ (obj.ID :> obj)

StoreComponent(registry, obj) == (obj.ID :> obj) @@ registry

\* One iteration of `for file in file_list`: the descriptor is built and
\* stored, or InvalidInputError is caught and `del desc` runs, which raises
\* UnboundLocalError when no earlier iteration left `desc` bound.
LoadDescriptor(descriptor) ==
    LET r == NewComponentDescriptor(descriptor)
    IN  /\ file_list' = Append(file_list, descriptor)
        /\ outcomes' = Append(outcomes, r.error)
        /\ IF r.error = ""
           THEN /\ components' = StoreComponent(components, r.obj)
                /\ desc_bound' = TRUE
                /\ UNCHANGED <<pc, error>>
           ELSE IF r.error = "InvalidInputError" /\ desc_bound
           THEN /\ desc_bound' = FALSE
                /\ UNCHANGED <<components, pc, error>>
           ELSE /\ pc' = "aborted"
                /\ error' = IF r.error = "InvalidInputError"
                            THEN "UnboundLocalError" ELSE r.error
                /\ UNCHANGED <<components, desc_bound>>
        /\ UNCHANGED <<target, stack, ret, builds, commands, config, mode,
                       cwd, build_env, utVars>>

LoadComponent ==
    /\ pc = "loading"
    /\ Len(file_list) < MaxFiles
    /\ \E descriptor \in Records : LoadDescriptor(descriptor)
    /\ UNCHANGED mainVars

\* The loop is over: the documentation path is read (SystemExit when it
\* is missing), _load_configuration and SDE.__init__ return, and the loop's
\* local names (file_list, desc) are gone.
LoadReturn ==
    /\ pc = "loading"
    /\ IF ~Has(config, "documentationpath")
       THEN /\ pc' = "exited"
            /\ error' = "SystemExit"
       ELSE /\ pc' = "ready"
            /\ UNCHANGED error
    /\ file_list' = << >>
    /\ outcomes' = << >>
    /\ desc_bound' = FALSE
    /\ UNCHANGED <<components, target, stack, ret, builds, commands, config,
                   mode, cwd, build_env, utVars>>
    /\ UNCHANGED mainVars

(***************************************************************************)
(* Builders.  The outcome of the environment for one build(): whether the  *)
(* source directory exists (os.chdir) and whether the external command     *)
(* exits with status 0.                                                    *)
(***************************************************************************)
Env == [chdir_ok : BOOLEAN, run_ok : BOOLEAN]

\* Number of *.proto files that glob finds in a protobuf source directory.
MaxProtoFiles == 2

\* ProtobufBuilder.build issues one command per *.proto file: run_ok holds
\* the outcome of each.
ProtobufEnv ==
    [ chdir_ok : BOOLEAN,
      run_ok   : UNION { [1..n -> BOOLEAN] : n \in 0..MaxProtoFiles } ]

\* What one builder.build() call did: whether a builder's build() was
\* entered, the exception that left it, the _subprocess_call calls it made,
\* and the working directory it left behind.
BuildResult(invoked, err, cmds, dir) ==
    [invoked |-> invoked, error |-> err, commands |-> cmds, cwd |-> dir]

\* Builder._subprocess_call on a command whose exit status is 0 iff ok:
\* how often subprocess.run ran it, the value returned, the exception
\* raised ("" none).
SubprocessCallRetried(command, ok) ==
    [ cmd |-> command, runs |-> IF ok THEN 1 ELSE 2, ok |-> ok,
      returned |-> ok, error |-> "" ]

SubprocessCall(command, ok) ==
    [cmd |-> command, runs |-> 1, ok |-> ok, returned |-> ok, error |-> ""]

\* Executor._subprocess_call (the same code as Builder._subprocess_call).
ExecutorSubprocessCall(command, ok) ==
    [cmd |-> command, runs |-> 1, ok |-> ok, returned |-> ok, error |-> ""]

\* SphinxBuilder.build: getcwd, chdir to the source path, the command,
\* chdir back.  No try/finally: an exception leaves the directory as it is
\* at that point.
SphinxBuildNoRestore(component, env, dir) ==
    LET source_path == AbsPath(ExpandUser(component.BuilderConfig.SourcePath))
        call == SubprocessCall("sphinx-build", env.run_ok)
    IN  IF ~env.chdir_ok
        THEN BuildResult(TRUE, "FileNotFoundError", << >>, dir)
        ELSE BuildResult(TRUE, call.error, << call >>, source_path)

SphinxBuild(component, env, dir) ==
    LET source_path == AbsPath(ExpandUser(component.BuilderConfig.SourcePath))
        call == SubprocessCall("sphinx-build", env.run_ok)
    IN  IF ~env.chdir_ok
        THEN BuildResult(TRUE, "FileNotFoundError", << >>, dir)
        ELSE IF call.error # ""
        THEN BuildResult(TRUE, call.error, << call >>, source_path)
        ELSE BuildResult(TRUE, "", << call >>, dir)

\* CMakeBuilder.build: os.chdir(self._component.SourePath) reads an
\* attribute the descriptor does not have (AttributeError before the
\* directory changes); the log line after chdir reads SourcePath.
CMakeBuild(component, env, dir) ==
    IF ~Has(component, "SourePath")
    THEN BuildResult(TRUE, "AttributeError", << >>, dir)
    ELSE IF ~env.chdir_ok
    THEN BuildResult(TRUE, "FileNotFoundError", << >>, dir)
    ELSE IF ~Has(component, "SourcePath")
    THEN BuildResult(TRUE, "AttributeError", << >>, component.SourePath)
    ELSE LET call == SubprocessCall("cmake", env.run_ok)
         IN  IF call.error # ""
             THEN BuildResult(TRUE, call.error, << call >>, component.SourePath)
             ELSE BuildResult(TRUE, "", << call >>, dir)

\* ProtobufBuilder.build: the same start as CMakeBuilder.build, then one
\* protoc command per *.proto file; the value _subprocess_call returns is
\* not looked at, so the loop goes on after a failed command.
ProtobufBuild(component, env, dir) ==
    IF ~Has(component, "SourePath")
    THEN BuildResult(TRUE, "AttributeError", << >>, dir)
    ELSE IF ~env.chdir_ok
    THEN BuildResult(TRUE, "FileNotFoundError", << >>, dir)
    ELSE IF ~Has(component, "SourcePath")
    THEN BuildResult(TRUE, "AttributeError", << >>, component.SourePath)
    ELSE LET calls == [k \in DOMAIN env.run_ok |->
                          SubprocessCall("protoc", env.run_ok[k])]
             raised == { k \in DOMAIN calls : calls[k].error # "" }
         IN  IF raised # {}
             THEN LET k0 == CHOOSE k \in raised : \A j \in raised : k <= j
                  IN  BuildResult(TRUE, calls[k0].error, SubSeq(calls, 1, k0),
                                  component.SourePath)
             ELSE BuildResult(TRUE, "", calls, dir)

\* The builders whose modules are imported by the executor and follow the
\* common shape: change directory, one command, restore the directory.
PlainBuild(command, env, dir) ==
    IF ~env.chdir_ok
    THEN BuildResult(TRUE, "FileNotFoundError", << >>, dir)
    ELSE BuildResult(TRUE, "", << SubprocessCall(command, env.run_ok) >>, dir)

\* The environments execute_build can meet for a component.
EnvOf(component) ==
    IF component.BuildType = PROTOBUF THEN ProtobufEnv ELSE Env

\* BuildExecutor.execute_build: the if/elif chain, then builder.build().
\* MULTISTAGE and CONTENT bind the class, not an instance, so build() is
\* called without self; any other type leaves builder = None.
ExecuteBuild(component, env, dir) ==
    CASE component.BuildType = CMAKE       -> CMakeBuild(component, env, dir)
      [] component.BuildType = MAKE        -> PlainBuild("make", env, dir)
      [] component.BuildType = PROTOBUF    -> ProtobufBuild(component, env, dir)
      [] component.BuildType = SPHINX      -> SphinxBuild(component, env, dir)
      [] component.BuildType = ARTIFACTORY -> PlainBuild("artifactory", env, dir)
      [] component.BuildType = PYTHON      -> PlainBuild("pyinstaller", env, dir)
      [] component.BuildType = DEB         -> PlainBuild("dpkg-deb", env, dir)
      [] component.BuildType = DOCKER      -> PlainBuild("docker", env, dir)
      [] component.BuildType = MULTISTAGE  -> BuildResult(FALSE, "TypeError", << >>, dir)
      [] component.BuildType = CONTENT     -> BuildResult(FALSE, "TypeError", << >>, dir)
      [] OTHER -> BuildResult(FALSE, "AttributeError", << >>, dir)

(***************************************************************************)
(* ComponentDescriptor: dependencies.                                      *)
(***************************************************************************)
\* SDE.has_component
has_component_any(registry, component) == TRUE

has_component(registry, component) == component \in DOMAIN registry

\* ComponentDescriptor.has_dependencies
has_dependencies(component) == Len(component.Dependencies) > 0

\* The elements of the list get_all_dependencies builds: a component id
\* (list.append(component.ID)) or a whole list
\* (list.append(component.get_all_dependencies())).
IdItem(id) == [id |-> id]
ListItem(l) == [list |-> l]
Hashable(item) == Has(item, "id")

\* A frame of get_all_dependencies: self, the position of the for loop in
\* self._dependencies, and dep_list.
Frame(id) == [component |-> id, i |-> 1, dep_list |-> << >>]

Top == stack[Len(stack)]

(***************************************************************************)
(* BuildExecutor.                                                          *)
(***************************************************************************)
\* SDE._on_execute_build up to the end of BuildExecutor.__init__.
OnExecuteBuild ==
    /\ pc = "ready"
    /\ EnterHandler("build")
    /\ \E component \in Ids \cup {UnknownId} :
         /\ target' = component
         /\ IF ~has_component(components, component)
            THEN /\ error' = "RuntimeError"
                 /\ pc' = "done"
            ELSE IF component \notin DOMAIN components
            THEN /\ error' = "KeyError"
                 /\ pc' = "done"
            ELSE /\ pc' = "execute"
                 /\ UNCHANGED error
    /\ UNCHANGED <<components, file_list, outcomes, desc_bound, stack, ret,
                   builds, commands, config, cwd, build_env, utVars>>
    /\ UNCHANGED <<executed, exit_status>>

\* BuildExecutor.execute: with dependencies, build_dependencies starts with
\* the call of get_all_dependencies; without, execute_build(self._component)
\* runs and execute ends.
Execute ==
    /\ pc = "execute"
    /\ executed' = Append(executed, "BuildExecutor")
    /\ IF has_dependencies(components[target])
       THEN /\ pc' = "get_all_dependencies"
            /\ stack' = << Frame(target) >>
            /\ UNCHANGED <<error, builds, commands, cwd, build_env>>
       ELSE \E env \in EnvOf(components[target]) :
              LET r == ExecuteBuild(components[target], env, cwd)
              IN  /\ builds' = IF r.invoked THEN Append(builds, target)
                               ELSE builds
                  /\ commands' = commands \o r.commands
                  /\ error' = r.error
                  /\ cwd' = r.cwd
                  /\ build_env' = env
                  /\ pc' = "done"
                  /\ UNCHANGED stack
    /\ UNCHANGED <<components, file_list, outcomes, desc_bound, target, ret,
                   config, mode, utVars>>
    /\ UNCHANGED <<handlers, exit_status>>

\* ComponentDescriptor.get_all_dependencies, one iteration of its for loop:
\* the registry lookup (KeyError for an id that is no key), the append of
\* the id, and the recursive call (RecursionError at the depth limit).
GetAllDependenciesIterate ==
    /\ pc = "get_all_dependencies"
    /\ Top.i <= Len(components[Top.component].Dependencies)
    /\ LET dependency == components[Top.component].Dependencies[Top.i]
       IN  IF dependency \notin DOMAIN components
           THEN /\ error' = "KeyError"
                /\ pc' = "done"
                /\ stack' = << >>
           ELSE IF Len(stack) >= RecursionLimit
           THEN /\ error' = "RecursionError"
                /\ pc' = "done"
                /\ stack' = << >>
           ELSE /\ stack' = Append(
                      [stack EXCEPT ![Len(stack)].dep_list =
                          Append(@, IdItem(components[dependency].ID))],
                      Frame(dependency))
                /\ UNCHANGED <<error, pc>>
    /\ UNCHANGED <<components, file_list, outcomes, desc_bound, target, ret,
                   builds, commands, config, mode, cwd, build_env, utVars>>
    /\ UNCHANGED mainVars

\* ComponentDescriptor.get_all_dependencies returns dep_list: the caller
\* appends the returned list as one element and goes on with its loop; the
\* outermost call returns into build_dependencies.
GetAllDependenciesReturn ==
    /\ pc = "get_all_dependencies"
    /\ Top.i > Len(components[Top.component].Dependencies)
    /\ IF Len(stack) = 1
       THEN /\ ret' = Top.dep_list
            /\ stack' = << >>
            /\ pc' = "build_dependencies"
       ELSE /\ stack' = [SubSeq(stack, 1, Len(stack) - 1)
                            EXCEPT ![Len(stack) - 1] =
                                [@ EXCEPT !.dep_list =
                                              Append(@, ListItem(Top.dep_list)),
                                          !.i = @ + 1]]
            /\ UNCHANGED <<ret, pc>>
    /\ UNCHANGED <<components, file_list, outcomes, desc_bound, target, error,
                   builds, commands, config, mode, cwd, build_env, utVars>>
    /\ UNCHANGED mainVars

\* list(dict.fromkeys(l)) on hashable elements: duplicates removed, the
\* first occurrence of each kept in place.
RECURSIVE FromKeys(_)
FromKeys(l) ==
    IF Len(l) = 0 THEN << >>
    ELSE LET init == FromKeys(SubSeq(l, 1, Len(l) - 1))
             last == l[Len(l)]
         IN  IF \E k \in DOMAIN init : init[k] = last THEN init
             ELSE Append(init, last)

\* execute_build for each id of `ids` in turn, until one raises.
RECURSIVE RunBuilds(_, _, _, _)
RunBuilds(registry, ids, envs, dir) ==
    IF Len(ids) = 0
    THEN [builds |-> << >>, commands |-> << >>, error |-> "", cwd |-> dir]
    ELSE LET r == ExecuteBuild(registry[ids[1]], envs[1], dir)
             b == IF r.invoked THEN << ids[1] >> ELSE << >>
         IN  IF r.error # ""
             THEN [ builds |-> b, commands |-> r.commands, error |-> r.error,
                    cwd |-> r.cwd ]
             ELSE LET rest == RunBuilds(registry, Tail(ids), Tail(envs), r.cwd)
                  IN  [ builds   |-> b \o rest.builds,
                        commands |-> r.commands \o rest.commands,
                        error    |-> rest.error,
                        cwd      |-> rest.cwd ]

\* BuildExecutor.build_dependencies after get_all_dependencies returned,
\* and the rest of execute: dict.fromkeys raises TypeError on an element
\* that is a list; otherwise every dependency is built in the order of the
\* deduplicated list, then the target.
BuildDependencies ==
    /\ pc = "build_dependencies"
    /\ IF \E k \in DOMAIN ret : ~Hashable(ret[k])
       THEN /\ error' = "TypeError"
            /\ UNCHANGED <<builds, commands, cwd>>
       ELSE LET dep_list == FromKeys(ret)
                order == [k \in DOMAIN dep_list |-> dep_list[k].id]
                            \o << target >>
            IN  \E envs \in [DOMAIN order -> Env] :
                  LET r == RunBuilds(components, order, envs, cwd)
                  IN  /\ builds' = builds \o r.builds
                      /\ commands' = commands \o r.commands
                      /\ error' = r.error
                      /\ cwd' = r.cwd
    /\ pc' = "done"
    /\ UNCHANGED <<components, file_list, outcomes, desc_bound, target, stack,
                   ret, config, mode, build_env, utVars>>
    /\ UNCHANGED mainVars

(***************************************************************************)
(* UnitTestExecutor.                                                       *)
(***************************************************************************)
\* The components the loop of UnitTestExecutor.execute goes over: the one
\* given, or the keys of the registry for 'all'.
SelectedComponents(registry, component) ==
    IF component = "all" THEN DOMAIN registry ELSE {component}

\* A suite for every registered component.
build_test_suite_registered(registry, component) ==
    component \in DOMAIN registry

\* UnitTestExecutor._build_test_suite returns a suite (TRUE) or None: None
\* for a component that is not registered or has no UnitTestLocation.
build_test_suite(registry, component) ==
    /\ component \in DOMAIN registry
    /\ registry[component].UnitTestLocation # None

\* What TestRunner.run reports for one suite: whether result.errors and
\* result.failures are non-empty.
TestResults == [errors : BOOLEAN, failures : BOOLEAN]

\* test_success after the two `if` statements on the result of one suite.
TestSuccessOfLast(success, result) == ~(result.errors \/ result.failures)

TestSuccessAfter(success, result) ==
    IF result.errors \/ result.failures THEN FALSE ELSE success

\* SDE._on_execute_unittest up to the loop of UnitTestExecutor.execute.
OnExecuteUnitTest ==
    /\ pc = "ready"
    /\ EnterHandler("unittest")
    /\ executed' = Append(executed, "UnitTestExecutor")
    /\ \E component \in Ids \cup {UnknownId, "all"} :
         /\ target' = component
         /\ pending' = SelectedComponents(components, component)
    /\ test_success' = TRUE
    /\ suites' = << >>
    /\ pc' = "unittest"
    /\ UNCHANGED <<components, file_list, outcomes, desc_bound, error, stack,
                   ret, builds, commands, config, cwd, build_env>>
    /\ UNCHANGED exit_status

\* One iteration of `for component in components`: the runner is made, the
\* suite is built and, when there is one, run.
UnitTestComponent ==
    /\ pc = "unittest"
    /\ \E component \in pending :
         /\ pending' = pending \ {component}
         /\ IF build_test_suite(components, component)
            THEN \E result \in TestResults :
                   /\ suites' = Append(suites,
                                       [ component |-> component,
                                         errors    |-> result.errors,
                                         failures  |-> result.failures ])
                   /\ test_success' = TestSuccessAfter(test_success, result)
            ELSE UNCHANGED <<suites, test_success>>
    /\ UNCHANGED <<components, file_list, outcomes, desc_bound, pc, error,
                   target, stack, ret, builds, commands, config, mode, cwd,
                   build_env>>
    /\ UNCHANGED mainVars

\* The loop is over: SystemExit(-1) unless test_success.
UnitTestReturn ==
    /\ pc = "unittest"
    /\ pending = {}
    /\ error' = IF ~test_success THEN "SystemExit" ELSE ""
    /\ pc' = "done"
    /\ UNCHANGED <<components, file_list, outcomes, desc_bound, target, stack,
                   ret, builds, commands, config, mode, cwd, build_env,
                   utVars>>
    /\ UNCHANGED mainVars

(***************************************************************************)
(* The other modes of SDE.execute.                                         *)
(***************************************************************************)
\* The modes whose handler is `del component` (version also prints).
StubModes ==
    {"version", "featuretest", "systemtest", "performancetest", "install",
     "release"}

OnExecuteStubDeleting ==
    /\ pc = "ready"
    /\ \E m \in StubModes : EnterHandler(m)
    /\ \E component \in DOMAIN components :
         components' = Without(components, component)
    /\ pc' = "done"
    /\ UNCHANGED <<file_list, outcomes, desc_bound, error, target, stack,
                   ret, builds, commands, config, cwd, build_env, utVars>>
    /\ UNCHANGED <<executed, exit_status>>

OnExecuteStub ==
    /\ pc = "ready"
    /\ \E m \in StubModes : EnterHandler(m)
    /\ pc' = "done"
    /\ UNCHANGED <<components, file_list, outcomes, desc_bound, error, target,
                   stack, ret, builds, commands, config, cwd, build_env,
                   utVars>>
    /\ UNCHANGED <<executed, exit_status>>

\* SDE._on_execute_linter: LinterExecutor(application=self) lacks the
\* required argument `component`.
OnExecuteLinter ==
    /\ pc = "ready"
    /\ EnterHandler("linter")
    /\ error' = "TypeError"
    /\ pc' = "done"
    /\ UNCHANGED <<components, file_list, outcomes, desc_bound, target, stack,
                   ret, builds, commands, config, cwd, build_env, utVars>>
    /\ UNCHANGED <<executed, exit_status>>

\* CoverageExecutor.execute: the calls it makes when the exit status of
\* its i-th command is 0 iff ok[i].  Each `if` only chooses the log line.
CoverageExecuteUntilFailure(ok) ==
    LET run    == ExecutorSubprocessCall("coverage run", ok[1])
        report == ExecutorSubprocessCall("coverage report", ok[2])
        html   == ExecutorSubprocessCall("coverage html", ok[3])
    IN  IF ~run.returned THEN << run >>
        ELSE IF ~report.returned THEN << run, report >>
        ELSE << run, report, html >>

CoverageExecute(ok) ==
    << ExecutorSubprocessCall("coverage run", ok[1]),
       ExecutorSubprocessCall("coverage report", ok[2]),
       ExecutorSubprocessCall("coverage html", ok[3]) >>

\* SDE._on_execute_coverage and CoverageExecutor.execute: three commands,
\* each issued whatever the one before returned.
OnExecuteCoverage ==
    /\ pc = "ready"
    /\ EnterHandler("coverage")
    /\ executed' = Append(executed, "CoverageExecutor")
    /\ \E ok \in [1..3 -> BOOLEAN] :
         commands' = commands \o CoverageExecute(ok)
    /\ pc' = "done"
    /\ UNCHANGED <<components, file_list, outcomes, desc_bound, error, target,
                   stack, ret, builds, config, cwd, build_env, utVars>>
    /\ UNCHANGED exit_status

\* SDE._on_execute_opendocs: FileNotFoundError when the documentation is no
\* file, which main turns into SystemExit.
OnExecuteOpendocs ==
    /\ pc = "ready"
    /\ EnterHandler("opendocs")
    /\ \E isfile \in BOOLEAN :
         error' = IF isfile THEN "" ELSE "SystemExit"
    /\ pc' = "done"
    /\ UNCHANGED <<components, file_list, outcomes, desc_bound, target, stack,
                   ret, builds, commands, config, cwd, build_env, utVars>>
    /\ UNCHANGED <<executed, exit_status>>

(***************************************************************************)
(* The program: startup, then one request.                           *)
(***************************************************************************)
Next ==
    \/ LoadConfiguration
    \/ LoadComponent
    \/ LoadReturn
    \/ OnExecuteBuild
    \/ Execute
    \/ OnExecuteUnitTest
    \/ UnitTestComponent
    \/ UnitTestReturn
    \/ OnExecuteStub
    \/ OnExecuteLinter
    \/ OnExecuteCoverage
    \/ OnExecuteOpendocs

Spec == Init /\ [][Next]_vars

(***************************************************************************)
(* The dependency walk on its own.  The loader never fills                 *)
(* ComponentDescriptor._dependencies; a descriptor has dependencies only   *)
(* once a caller has filled the list that the Dependencies property hands  *)
(* out.  InitDeps is a constructed application whose descriptors carry     *)
(* such lists.                                                             *)
(***************************************************************************)
NoRepeat(s) == \A i, j \in DOMAIN s : i # j => s[i] # s[j]

DepLists ==
    { s \in UNION { [1..n -> Ids] : n \in 0..MaxDeps } : NoRepeat(s) }

DepBuilds == { << >>, [build |-> BuildSphinx] }

WithDependencies(descriptor, deps) ==
    [NewComponentDescriptor(descriptor).obj EXCEPT !.Dependencies = deps]

InitDeps ==
    /\ \E D \in SUBSET Ids :
         \E deps \in [D -> DepLists], b \in [D -> DepBuilds] :
           components =
             [i \in D |-> WithDependencies([id |-> i] @@ b[i], deps[i])]
    /\ file_list = << >>
    /\ outcomes = << >>
    /\ desc_bound = FALSE
    /\ pc = "ready"
    /\ error = ""
    /\ target = ""
    /\ stack = << >>
    /\ ret = << >>
    /\ builds = << >>
    /\ commands = << >>
    /\ config = FullConfig
    /\ mode = ""
    /\ cwd = StartDir
    /\ build_env = None
    /\ pending = {}
    /\ test_success = TRUE
    /\ suites = << >>
    /\ handlers = << >>
    /\ executed = << >>
    /\ exit_status = ""

NextDeps ==
    \/ OnExecuteBuild
    \/ Execute
    \/ GetAllDependenciesIterate
    \/ GetAllDependenciesReturn
    \/ BuildDependencies

SpecDeps == InitDeps /\ [][NextDeps]_vars

(***************************************************************************)
(* A component path that holds one descriptor file, whose build.type is    *)
(* any spelling of any name: the startup, then one build request.          *)
(***************************************************************************)
TypeSpellings ==
    UNION { { Spell(n, upper) : upper \in SUBSET DOMAIN n } :
              n \in EnumeratedTypeNames \cup {BuildNonsense.type} }

\* The build section for a type: the sphinx section carries its three keys.
BuildSection(type) ==
    IF Lower(type) = S_sphinx
    THEN [ type       |-> type,
           target     |-> "html",
           sourcepath |-> "doc",
           targetpath |-> "out" ]
    ELSE [type |-> type]

\* A dict restricted to some of its keys.
Restrict(d, K) == [k \in K |-> d[k]]

\* The sphinx sections that carry any of the three keys.
SphinxSections ==
    { [type |-> t] @@ Restrict(BuildSphinx, K) :
        t \in { x \in TypeSpellings : Lower(x) = S_sphinx },
        K \in SUBSET {"target", "sourcepath", "targetpath"} }

\* Largest unittest.verbosity in a descriptor file.
MaxVerbosity == 3

\* unittest.verbosity as a JSON number or as a string of digits.
VerbosityValues ==
    { [int |-> n] : n \in 0..MaxVerbosity }
    \cup { [str |-> << Digits[n + 1] >>] : n \in 0..MaxVerbosity }
    \cup { [str |-> << "1", "0" >>] }

\* The unittest sections: any of outdir, logformat and testdir, with or
\* without verbosity.
UnitTestSections ==
    LET paths == { Restrict(UnitTestFull, K) :
                     K \in SUBSET {"outdir", "logformat", "testdir"} }
    IN  paths \cup { [verbosity |-> v] @@ u : v \in VerbosityValues,
                                              u \in paths }

LoaderRecords ==
    { [id |-> "A", build |-> BuildSection(t)] : t \in TypeSpellings }
    \cup { [id |-> "A", build |-> b] : b \in SphinxSections }
    \cup { [id |-> "A", unittest |-> u] : u \in UnitTestSections }
    \cup { [id |-> "A"], [id |-> "A", name |-> "a"] }

LoadOne ==
    /\ pc = "loading"
    /\ Len(file_list) = 0
    /\ \E descriptor \in LoaderRecords : LoadDescriptor(descriptor)
    /\ UNCHANGED mainVars

NextOne ==
    \/ LoadConfiguration
    \/ LoadOne
    \/ LoadReturn
    \/ OnExecuteBuild
    \/ Execute

SpecOne == Init /\ [][NextOne]_vars

(***************************************************************************)
(* main with several mode flags: the startup on a component path with one  *)
(* descriptor file, then the handlers of the flags that are set, in the    *)
(* order of main's `if` statements, and the end of the process.            *)
(***************************************************************************)
\* Number of mode flags given in one invocation.
MaxModes == 3

MainRecords ==
    { [id |-> "A", build |-> BuildSphinx],
      [id |-> "A", unittest |-> UnitTestFull] }

LoadMain ==
    /\ pc = "loading"
    /\ Len(file_list) = 0
    /\ \E descriptor \in MainRecords : LoadDescriptor(descriptor)
    /\ UNCHANGED mainVars

\* A handler has returned and main goes on to the flags after it.
MainNextAfterError ==
    /\ pc = "done"
    /\ Len(handlers) < MaxModes
    /\ pc' = "ready"
    /\ UNCHANGED <<components, file_list, outcomes, desc_bound, error, target,
                   stack, ret, builds, commands, config, mode, cwd, build_env,
                   utVars, mainVars>>

MainNext ==
    /\ pc = "done"
    /\ error = ""
    /\ Len(handlers) < MaxModes
    /\ pc' = "ready"
    /\ UNCHANGED <<components, file_list, outcomes, desc_bound, target,
                   stack, ret, builds, commands, config, mode, cwd, build_env,
                   utVars, mainVars>>
    /\ UNCHANGED error

\* The exit status of the process: SystemExit is no Exception and leaves
\* main, every other exception is caught and printed by `except Exception`.
ExitStatus(err) == IF err = "SystemExit" THEN "nonzero" ELSE "zero"

\* The process ends: SDE() raised, a handler raised, or no flag is left.
MainExit ==
    /\ pc \in {"ready", "done", "aborted", "exited"}
    /\ pc' = "exit"
    /\ exit_status' = ExitStatus(error)
    /\ UNCHANGED <<components, file_list, outcomes, desc_bound, error, target,
                   stack, ret, builds, commands, config, mode, cwd, build_env,
                   utVars, handlers, executed>>

NextMain ==
    \/ LoadConfiguration
    \/ LoadMain
    \/ LoadReturn
    \/ OnExecuteBuild
    \/ Execute
    \/ OnExecuteUnitTest
    \/ UnitTestComponent
    \/ UnitTestReturn
    \/ OnExecuteStub
    \/ OnExecuteLinter
    \/ OnExecuteCoverage
    \/ OnExecuteOpendocs
    \/ MainNext
    \/ MainExit

SpecMain == Init /\ [][NextMain]_vars

(***************************************************************************)
(* Vocabulary of the properties.                                           *)
(***************************************************************************)
\* The ids a registered component names directly.
DirectDeps(registry, c) ==
    IF c \in DOMAIN registry
    THEN { registry[c].Dependencies[k] : k \in DOMAIN registry[c].Dependencies }
    ELSE {}

RECURSIVE Closure(_, _, _)
Closure(registry, S, n) ==
    IF n = 0 THEN S
    ELSE Closure(registry,
                 S \cup UNION { DirectDeps(registry, c) : c \in S }, n - 1)

\* The direct and indirect dependencies of c.
TransitiveDeps(registry, c) ==
    Closure(registry, DirectDeps(registry, c), Cardinality(Ids))

\* Every dependency names a registered component and none reaches itself.
Resolvable(registry) ==
    \A c \in DOMAIN registry : DirectDeps(registry, c) \subseteq DOMAIN registry
Acyclic(registry) ==
    \A c \in DOMAIN registry : c \notin TransitiveDeps(registry, c)

\* The depth-first walk over the dependency lists (defined on an acyclic,
\* resolvable registry), and its first-seen order without duplicates.
RECURSIVE DepthFirst(_, _)
DepthFirst(registry, deps) ==
    IF Len(deps) = 0 THEN << >>
    ELSE << deps[1] >> \o DepthFirst(registry, registry[deps[1]].Dependencies)
                       \o DepthFirst(registry, Tail(deps))

FirstSeenOrder(registry, c) == FromKeys(DepthFirst(registry, registry[c].Dependencies))

Occurrences(seq, x) == Cardinality({ k \in DOMAIN seq : seq[k] = x })

\* A build request for a registered component with dependencies, in an
\* acyclic and resolvable registry, has ended.
AcyclicBuildEnded ==
    /\ pc = "done"
    /\ mode = "build"
    /\ target \in DOMAIN components
    /\ has_dependencies(components[target])
    /\ Resolvable(components)
    /\ Acyclic(components)

\* The files taken so far, and those among them that produced a descriptor
\* stored under id.
Taken == DOMAIN file_list
StoredFrom(j, id) ==
    /\ Has(file_list[j], "id")
    /\ file_list[j]["id"] = id
    /\ outcomes[j] = ""

(***************************************************************************)
(* C1.  In an acyclic registry, build_dependencies turns the result of     *)
(* get_all_dependencies into the transitive dependencies of the target,    *)
(* each exactly once, in first-seen depth-first order, and build() is      *)
(* invoked once for each of them in that order.  Stated of the code it     *)
(* fails: get_all_dependencies appends each sub-list as one element, and   *)
(* dict.fromkeys raises TypeError on it before any build.                  *)
(***************************************************************************)
C1_DependenciesBuiltOnceInOrder ==
    AcyclicBuildEnded =>
        LET order == FirstSeenOrder(components, target)
        IN  /\ Len(builds) >= Len(order)
            /\ SubSeq(builds, 1, Len(order)) = order
            /\ \A d \in TransitiveDeps(components, target) :
                   Occurrences(builds, d) = 1

(***************************************************************************)
(* C2.  For a target with dependencies in an acyclic registry, execute     *)
(* invokes build() for every transitive dependency before the target's,    *)
(* and the target's build() is the last one of the call.  Stated of the    *)
(* code it fails with C1: TypeError ends execute before any build().       *)
(***************************************************************************)
C2_DependenciesBeforeTarget ==
    AcyclicBuildEnded =>
        /\ Len(builds) > 0
        /\ builds[Len(builds)] = target
        /\ \A d \in TransitiveDeps(components, target) :
               \E k \in 1..(Len(builds) - 1) : builds[k] = d

(***************************************************************************)
(* C3.  Dependency resolution started on a component that lies on a        *)
(* dependency cycle ends with an explicit cycle error.  Stated of the code *)
(* it fails: the walk recurses until the interpreter's recursion limit and *)
(* ends with RecursionError.                                               *)
(***************************************************************************)
C3_CycleEndsWithCycleError ==
    ( /\ pc = "done"
      /\ mode = "build"
      /\ target \in DOMAIN components
      /\ Resolvable(components)
      /\ target \in TransitiveDeps(components, target) )
    => error = "CycleError"

(***************************************************************************)
(* C4.  Wherever the malformed files stand in the file list, loading does  *)
(* not abort and the registry holds exactly the descriptors of the         *)
(* well-formed files.  Stated of the code it fails: `del desc` in the      *)
(* except branch raises UnboundLocalError when the first file, or two      *)
(* files in a row, are malformed.                                          *)
(***************************************************************************)
C4_MalformedFilesAreSkipped ==
    /\ pc # "aborted"
    /\ pc = "loading" =>
         /\ DOMAIN components =
              { file_list[j]["id"] : j \in { k \in Taken :
                                               file_list[k] \in WellFormedRecords } }
         /\ \A id \in DOMAIN components :
              \E j \in Taken :
                /\ file_list[j] \in WellFormedRecords
                /\ file_list[j]["id"] = id
                /\ components[id] = NewComponentDescriptor(file_list[j]).obj
                /\ \A k \in Taken :
                     (k > j /\ file_list[k] \in WellFormedRecords)
                         => file_list[k]["id"] # id

(***************************************************************************)
(* C5.  A build request for an id that is no key of the registry ends in   *)
(* BuildExecutor.__init__ with RuntimeError ("Component ... does not       *)
(* exist"), and no build() and no external command has run.                *)
(***************************************************************************)
C5_UnknownComponentNotFound ==
    (pc \in {"execute", "get_all_dependencies", "build_dependencies", "done"}
        /\ mode = "build"
        /\ target \notin DOMAIN components)
    => /\ pc = "done"
       /\ error = "RuntimeError"
       /\ builds = << >>
       /\ commands = << >>

C5_Witness ==
    /\ pc = "done"
    /\ target = UnknownId
    /\ DOMAIN components # {}
    /\ error = "RuntimeError"

(***************************************************************************)
(* C6.  Every well-formed record taken by the load loop produced a         *)
(* descriptor, and the registry holds under the record's id a descriptor   *)
(* whose ID is that id.                                                    *)
(***************************************************************************)
C6_DescriptorStoredUnderItsId ==
    \A j \in Taken :
        file_list[j] \in WellFormedRecords =>
            /\ outcomes[j] = ""
            /\ NewComponentDescriptor(file_list[j]).obj.ID = file_list[j]["id"]
            /\ file_list[j]["id"] \in DOMAIN components
            /\ components[file_list[j]["id"]].ID = file_list[j]["id"]

C6_Witness ==
    /\ pc = "loading"
    /\ Len(file_list) = MaxFiles
    /\ \A j \in Taken : file_list[j] \in WellFormedRecords
    /\ Cardinality(DOMAIN components) = Cardinality(Ids)

(***************************************************************************)
(* C7.  A record without an id makes the construction fail with            *)
(* InvalidInputError, and the registry holds no entry for it: every entry  *)
(* stems from a file that has an id and was constructed without error.     *)
(***************************************************************************)
C7_MissingIdIsRejected ==
    /\ \A j \in Taken :
           ~Has(file_list[j], "id") => outcomes[j] = "InvalidInputError"
    /\ pc \in {"loading", "aborted"} =>
           \A id \in DOMAIN components : \E j \in Taken : StoredFrom(j, id)

C7_Witness ==
    /\ pc = "loading"
    /\ Len(file_list) = 2
    /\ ~Has(file_list[2], "id")
    /\ DOMAIN components = {file_list[1]["id"]}

(***************************************************************************)
(* C8.  A record whose build.type names none of the enumerated build types *)
(* makes the load fail with InvalidInputError, and its id is a key of the  *)
(* registry only when another file declared the same id.                   *)
(***************************************************************************)
C8_UnknownTypeIsRejected ==
    \A j \in Taken :
        ( /\ Has(file_list[j], "id")
          /\ Has2(file_list[j], "build", "type")
          /\ Lower(file_list[j]["build"]["type"]) \notin EnumeratedTypeNames )
        => /\ outcomes[j] = "InvalidInputError"
           /\ file_list[j]["id"] \in DOMAIN components =>
                \E k \in Taken \ {j} : StoredFrom(k, file_list[j]["id"])

C8_Witness ==
    /\ pc = "loading"
    /\ Len(file_list) = 2
    /\ file_list[2] = [id |-> "B", build |-> BuildNonsense]
    /\ DOMAIN components = {"A"}

(***************************************************************************)
(* C9.  A record with an id and no build section is constructed without    *)
(* error, and its descriptor has BuildType UNKNOWN and BuilderConfig None. *)
(***************************************************************************)
C9_NoBuildSectionIsUnknown ==
    (Len(file_list) > 0 /\ Has(file_list[Len(file_list)], "id")
                        /\ ~Has(file_list[Len(file_list)], "build"))
    => LET descriptor == file_list[Len(file_list)]
       IN  /\ outcomes[Len(file_list)] = ""
           /\ pc = "loading"
           /\ descriptor["id"] \in DOMAIN components
           /\ components[descriptor["id"]].BuildType = UNKNOWN
           /\ components[descriptor["id"]].BuilderConfig = None

C9_Witness ==
    /\ Len(file_list) = 2
    /\ file_list[1] = [id |-> "B", build |-> BuildCMake]
    /\ file_list[2] = [id |-> "B"]
    /\ components["B"].BuildType = UNKNOWN

(***************************************************************************)
(* C10.  A build request for a component loaded from a record with no      *)
(* build section ends without an error and without any build() or external *)
(* command.  Stated of the code it fails: execute_build leaves builder =   *)
(* None for UNKNOWN and calls None.build(), an AttributeError.             *)
(***************************************************************************)
C10_NoBuildStepCompletes ==
    ( /\ pc = "done"
      /\ mode = "build"
      /\ target \in DOMAIN components
      /\ \E descriptor \in Records :
           /\ Has(descriptor, "id")
           /\ ~Has(descriptor, "build")
           /\ components[target] = NewComponentDescriptor(descriptor).obj )
    => /\ error = ""
       /\ builds = << >>
       /\ commands = << >>

(***************************************************************************)
(* Vocabulary of the properties on build types.                            *)
(***************************************************************************)
\* The member of BuildTypes a lower-cased name stands for.
TypeOfName(name) ==
    CASE name = S_cmake         -> CMAKE
      [] name = S_make          -> MAKE
      [] name = S_protobuf      -> PROTOBUF
      [] name = S_sphinx        -> SPHINX
      [] name = S_artifactory   -> ARTIFACTORY
      [] name = S_python        -> PYTHON
      [] name = S_deb           -> DEB
      [] name = S_docker        -> DOCKER
      [] name = S_multistage    -> MULTISTAGE
      [] name = S_content       -> CONTENT
      [] name = S_versionbumper -> VERSIONBUMPER
      [] name = S_bash          -> BASH
      [] name = S_wheel         -> WHEEL
      [] name = S_pip           -> PIP
      [] OTHER                  -> UNKNOWN

\* The builder-config variant of a build type.
VariantOfType(type) ==
    CASE type = CMAKE         -> "CMakeBuilderConfig"
      [] type = MAKE          -> "MakeBuilderConfig"
      [] type = PROTOBUF      -> "ProtobufBuilderConfig"
      [] type = SPHINX        -> "SphinxBuilderConfig"
      [] type = ARTIFACTORY   -> "ArtifactoryBuilderConfig"
      [] type = PYTHON        -> "PythonBuilderConfig"
      [] type = DEB           -> "DebBuilderConfig"
      [] type = DOCKER        -> "DockerBuilderConfig"
      [] type = MULTISTAGE    -> "MultiStageBuilderConfig"
      [] type = CONTENT       -> "ContentBuilderConfig"
      [] type = VERSIONBUMPER -> "VersionBumperBuilderConfig"
      [] type = BASH          -> "BashBuilderConfig"
      [] type = WHEEL         -> "WheelBuilderConfig"
      [] type = PIP           -> "PipBuilderConfig"
      [] OTHER                -> "none"

\* File j is the last one taken that produced a descriptor for its id.
LastStored(j) ==
    /\ Has(file_list[j], "id")
    /\ outcomes[j] = ""
    /\ \A k \in Taken : k > j => ~StoredFrom(k, file_list[j]["id"])

(***************************************************************************)
(* C11.  A record whose build.type is any spelling of the name of one of   *)
(* the fourteen build types (a sphinx record carrying its three keys) is   *)
(* loaded without error, and its descriptor has the BuildTypes member of   *)
(* that name and a builder-config of the matching variant.  Stated of the  *)
(* code it fails: the chain of BuilderLoader.load has no branch for bash,  *)
(* wheel and pip (InvalidInputError), and the versionbumper branch calls   *)
(* VersionBumperBuilderConfig() without its required argument (TypeError). *)
(***************************************************************************)
C11_EveryTypeNameIsLoaded ==
    \A j \in Taken :
        LET descriptor == file_list[j]
        IN  ( /\ Has(descriptor, "id")
              /\ Has2(descriptor, "build", "type")
              /\ Lower(descriptor["build"]["type"]) \in EnumeratedTypeNames
              /\ Lower(descriptor["build"]["type"]) = S_sphinx =>
                    /\ Has(descriptor["build"], "target")
                    /\ Has(descriptor["build"], "sourcepath")
                    /\ Has(descriptor["build"], "targetpath") )
            => /\ outcomes[j] = ""
               /\ LastStored(j) =>
                    LET type == TypeOfName(Lower(descriptor["build"]["type"]))
                        obj == components[descriptor["id"]]
                    IN  /\ obj.BuildType = type
                        /\ Has(obj.BuilderConfig, "variant")
                        /\ obj.BuilderConfig.variant = VariantOfType(type)

(***************************************************************************)
(* C12.  Every descriptor in the registry holds one builder-config field,  *)
(* which is None exactly when BuildType is UNKNOWN and otherwise is the    *)
(* config variant of its BuildType.                                        *)
(***************************************************************************)
C12_ConfigMatchesBuildType ==
    \A id \in DOMAIN components :
        LET obj == components[id]
        IN  /\ (obj.BuilderConfig = None) <=> (obj.BuildType = UNKNOWN)
            /\ obj.BuildType # UNKNOWN =>
                 /\ Has(obj.BuilderConfig, "variant")
                 /\ obj.BuilderConfig.variant = VariantOfType(obj.BuildType)

\* A sphinx record without its path keys was loaded: its descriptor fell
\* back to UNKNOWN with no config.
C12_Witness ==
    /\ Len(file_list) = 1
    /\ Has2(file_list[1], "build", "type")
    /\ Lower(file_list[1]["build"]["type"]) = S_sphinx
    /\ ~Has(file_list[1]["build"], "sourcepath")
    /\ "A" \in DOMAIN components
    /\ components["A"].BuildType = UNKNOWN
    /\ components["A"].BuilderConfig = None

(***************************************************************************)
(* C13.  The descriptor built from a record has as Dependencies the list   *)
(* the record declares under `dependencies`, in the same order, and the    *)
(* empty list when the record declares none.  Stated of the code it fails: *)
(* _load_from_descriptor never reads a dependency list, so Dependencies    *)
(* stays the empty list of __init__.                                       *)
(***************************************************************************)
C13_DependenciesAreLoaded ==
    \A j \in Taken :
        LastStored(j) =>
            components[file_list[j]["id"]].Dependencies =
                IF Has(file_list[j], "dependencies")
                THEN file_list[j]["dependencies"]
                ELSE << >>

RequiredKeyMissing ==
    \/ ~Has(config, "version")
    \/ ~Has2(config, "logging", "logdir")
    \/ ~Has2(config, "logging", "logfile")
    \/ ~Has2(config, "logging", "loglevel")
    \/ ~Has(config, "documentationpath")

C15_MissingKeyAbortsStartup ==
    RequiredKeyMissing =>
        /\ mode = ""
        /\ pc \in {"start", "loading", "exited"}
        /\ pc = "exited" => error = "SystemExit"

(***************************************************************************)
(* C16.  Once SDE() has returned, no step of any mode handler, executor or *)
(* builder changes the registry: no key is added or removed and no field   *)
(* of a registered descriptor changes.                                     *)
(***************************************************************************)
C16_RegistryReadOnlyAfterStartup ==
    [][pc \notin {"start", "loading"} => components' = components]_vars

\* A build request on a non-empty registry has run a builder.
C16_Witness ==
    /\ pc = "done"
    /\ mode = "build"
    /\ builds = << target >>
    /\ Cardinality(DOMAIN components) >= 2

(***************************************************************************)
(* C17.  A build request for a component without dependencies whose        *)
(* BuildType is not UNKNOWN invokes build() of a builder instance exactly  *)
(* once.  Stated of the code it fails: for MULTISTAGE and CONTENT          *)
(* execute_build binds the builder class instead of an instance, and       *)
(* build() called on the class raises TypeError; no build() is entered.    *)
(***************************************************************************)
C17_EveryTypeIsBuiltOnce ==
    ( /\ pc = "done"
      /\ mode = "build"
      /\ target \in DOMAIN components
      /\ ~has_dependencies(components[target])
      /\ components[target].BuildType # UNKNOWN )
    => builds = << target >>

(***************************************************************************)
(* C18.  The working directory of the process is the one it started in     *)
(* whenever no build() is running: every build() that changed it restored  *)
(* it, whether its command succeeded or failed, and a build() that stopped *)
(* with an error had not changed it.                                       *)
(***************************************************************************)
C18_WorkingDirectoryRestored == cwd = StartDir

\* A sphinx build changed directory, its command failed, and build() ended.
C18_Witness ==
    /\ pc = "done"
    /\ mode = "build"
    /\ builds = << target >>
    /\ components[target].BuildType = SPHINX
    /\ build_env = [chdir_ok |-> TRUE, run_ok |-> FALSE]
    /\ Len(commands) = 1

(***************************************************************************)
(* C19.  Every call of _subprocess_call ran its command once, returned     *)
(* True exactly when the command exited with status 0, and raised nothing: *)
(* a handler never ends with CalledProcessError.                           *)
(***************************************************************************)
C19_SubprocessCallRunsOnceReturnsStatus ==
    /\ \A k \in DOMAIN commands :
         /\ commands[k].runs = 1
         /\ commands[k].returned = commands[k].ok
         /\ commands[k].error = ""
    /\ error # "CalledProcessError"

\* The coverage executor's first command failed and its second succeeded;
\* the executor went on and ended without an exception.
C19_Witness ==
    /\ pc = "done"
    /\ mode = "coverage"
    /\ Len(commands) = 3
    /\ ~commands[1].ok /\ ~commands[1].returned
    /\ commands[2].ok /\ commands[2].returned
    /\ error = ""

(***************************************************************************)
(* C20.  A protobuf build in whose source directory some protoc command    *)
(* fails issues the commands up to and including the first that fails and  *)
(* none after it, and ends in the directory it started in.  Stated of the  *)
(* code it fails: build() stops with AttributeError on                     *)
(* self._component.SourePath before any command is issued (and its loop    *)
(* does not look at what _subprocess_call returns).                        *)
(***************************************************************************)
FirstFailure(oks) ==
    CHOOSE k \in DOMAIN oks : ~oks[k] /\ \A j \in 1..(k - 1) : oks[j]

C20_FirstFailureEndsBuild ==
    ( /\ pc = "done"
      /\ mode = "build"
      /\ target \in DOMAIN components
      /\ components[target].BuildType = PROTOBUF
      /\ build_env # None
      /\ build_env.chdir_ok
      /\ Len(build_env.run_ok) >= 2
      /\ \E k \in DOMAIN build_env.run_ok : ~build_env.run_ok[k] )
    => /\ Len(commands) = FirstFailure(build_env.run_ok)
       /\ \A k \in DOMAIN commands :
            /\ commands[k].cmd = "protoc"
            /\ commands[k].ok = build_env.run_ok[k]
       /\ cwd = StartDir

(***************************************************************************)
(* C21.  A record whose unittest.verbosity is absent, the unittest section *)
(* missing or present without the key, gives a descriptor whose            *)
(* UnitTestVerbosity is 1; a record that has the key gives its integer     *)
(* value, whether the file spells it as a number or as a string of digits. *)
(***************************************************************************)
C21_VerbosityDefaultsToOne ==
    \A j \in Taken :
        LastStored(j) =>
            LET record == file_list[j]
                obj    == components[record["id"]]
            IN  /\ ~Has(record, "unittest") => obj.UnitTestVerbosity = 1
                /\ Has(record, "unittest")
                      /\ ~Has(record["unittest"], "verbosity")
                   => obj.UnitTestVerbosity = 1
                /\ Has2(record, "unittest", "verbosity")
                   => LET v == record["unittest"]["verbosity"]
                      IN  obj.UnitTestVerbosity =
                            IF Has(v, "int") THEN v.int
                            ELSE ParseDigits(v.str)

\* A stored section without the key next to ...
C21_Witness ==
    /\ Len(file_list) = 1
    /\ LastStored(1)
    /\ Has(file_list[1], "unittest")
    /\ ~Has(file_list[1]["unittest"], "verbosity")
    /\ ~Has(file_list[1]["unittest"], "outdir")
    /\ components["A"].UnitTestVerbosity = 1

\* The executor class a mode's handler constructs.
ExecutorOf(m) ==
    CASE m = "build"    -> "BuildExecutor"
      [] m = "unittest" -> "UnitTestExecutor"
      [] m = "linter"   -> "LinterExecutor"
      [] m = "coverage" -> "CoverageExecutor"

(***************************************************************************)
(* C22.  A request of any of the eleven modes invokes the one handler of   *)
(* that mode and no other; when the handler of build (for a registered     *)
(* component), unittest, linter or coverage is over, the executor of that  *)
(* mode was constructed and its execute() ran.                             *)
(***************************************************************************)
C22_EveryModeRunsItsExecutor ==
    /\ mode # "" => /\ \E i \in DOMAIN ModeOrder : ModeOrder[i] = mode
                    /\ handlers = << mode >>
    /\ pc = "done" /\ ( \/ mode \in {"unittest", "linter", "coverage"}
                        \/ mode = "build" /\ target \in DOMAIN components )
       => executed = << ExecutorOf(mode) >>

(***************************************************************************)
(* C23.  The construction of a descriptor from an accepted record without  *)
(* a name key succeeds, and the descriptor the registry holds for a record *)
(* has the record's name as its Name, or the sentinel 'UNKNOWN' when the   *)
(* record has no name key.                                                 *)
(***************************************************************************)
C23_NameDefaultsToSentinel ==
    \A j \in Taken :
        LET record == file_list[j]
        IN  /\ record \in WellFormedRecords /\ ~Has(record, "name")
               => outcomes[j] = ""
            /\ LastStored(j)
               => /\ Has(record, "name")
                     => components[record["id"]].Name = record["name"]
                  /\ ~Has(record, "name")
                     => components[record["id"]].Name = "UNKNOWN"

C23_Witness ==
    \E j, k \in Taken :
        /\ LastStored(j) /\ LastStored(k)
        /\ ~Has(file_list[j], "name")
        /\ components[file_list[j]["id"]].Name = "UNKNOWN"
        /\ Has(file_list[k], "name")
        /\ components[file_list[k]["id"]].Name = file_list[k]["name"]

(***************************************************************************)
(* C24.  Every key of the registry maps to a descriptor whose ID is that   *)
(* key; of the files that declare one id, the registry holds the           *)
(* descriptor of the one loaded last, and no other.                        *)
(***************************************************************************)
C24_LaterFileReplacesEarlier ==
    /\ \A k \in DOMAIN components : components[k].ID = k
    /\ \A j \in Taken :
         LastStored(j) =>
            components[file_list[j]["id"]]
                = NewComponentDescriptor(file_list[j]).obj

C24_Witness ==
    \E j, k \in Taken :
        /\ j < k
        /\ LastStored(k)
        /\ StoredFrom(j, file_list[k]["id"])
        /\ NewComponentDescriptor(file_list[j]).obj
              # NewComponentDescriptor(file_list[k]).obj
        /\ components[file_list[k]["id"]]
              = NewComponentDescriptor(file_list[k]).obj

(***************************************************************************)
(* C25.  A build request for a target with dependencies, in an acyclic     *)
(* registry, returns normally with every transitive dependency built in    *)
(* first-seen order and then the target, whatever the exit status of the   *)
(* command of any of these builds: a failed command of one dependency      *)
(* changes neither the builds that follow nor their order.  Stated of the  *)
(* code it fails with C1: TypeError ends execute before any build().       *)
(***************************************************************************)
C25_FailedCommandDoesNotStopBuilds ==
    AcyclicBuildEnded =>
        /\ error = ""
        /\ builds = FirstSeenOrder(components, target) \o << target >>

\* The record is a sphinx record that lacks one of the keys of its section.
SphinxKeyMissing(record) ==
    /\ Has2(record, "build", "type")
    /\ Lower(record["build"]["type"]) = S_sphinx
    /\ \/ ~Has(record["build"], "target")
       \/ ~Has(record["build"], "sourcepath")
       \/ ~Has(record["build"], "targetpath")

(***************************************************************************)
(* C26.  A record whose build.type is sphinx, in any spelling, and whose   *)
(* build section lacks target, sourcepath or targetpath is loaded without  *)
(* error, and its descriptor has BuildType UNKNOWN and BuilderConfig None: *)
(* it is the descriptor the same record gives without its build section.   *)
(***************************************************************************)
C26_SphinxWithoutKeysIsUnknown ==
    \A j \in Taken :
        SphinxKeyMissing(file_list[j]) =>
            /\ outcomes[j] = ""
            /\ LastStored(j) =>
                 LET obj == components[file_list[j]["id"]]
                 IN  /\ obj.BuildType = UNKNOWN
                     /\ obj.BuilderConfig = None
                     /\ obj = NewComponentDescriptor(
                                 Without(file_list[j], "build")).obj

C26_Witness ==
    /\ pc = "loading"
    /\ Len(file_list) = 1
    /\ SphinxKeyMissing(file_list[1])
    /\ ~Has(file_list[1]["build"], "target")
    /\ Has(file_list[1]["build"], "sourcepath")
    /\ Has(file_list[1]["build"], "targetpath")
    /\ outcomes[1] = ""
    /\ components["A"].BuildType = UNKNOWN
    /\ components["A"].BuilderConfig = None

(***************************************************************************)
(* C27.  The modes of one invocation run in main's fixed order: version,   *)
(* build, unittest, featuretest, systemtest, performancetest, linter,      *)
(* coverage, install, release, opendocs.  Once a mode has raised, no       *)
(* handler of a later mode is invoked; the process then ends with a        *)
(* non-zero status when the mode raised SystemExit, and with status zero   *)
(* when it raised an ordinary exception.                                   *)
(***************************************************************************)
C27_ModesInOrderUntilOneRaises ==
    /\ [](\A i, k \in DOMAIN handlers :
             i < k => ModeIndex(handlers[i]) < ModeIndex(handlers[k]))
    /\ [][error # "" => handlers' = handlers]_vars
    /\ [](pc = "exit" /\ error # "" =>
             IF error = "SystemExit" THEN exit_status = "nonzero"
             ELSE exit_status = "zero")

C27_Witness ==
    /\ pc = "exit"
    /\ handlers = << "build", "linter" >>
    /\ Len(handlers) < MaxModes
    /\ error = "TypeError"
    /\ executed = << "BuildExecutor" >>
    /\ exit_status = "zero"

(***************************************************************************)
(* C28.  When a coverage request is over, CoverageExecutor.execute has     *)
(* issued three commands, 'coverage run', 'coverage report' and 'coverage  *)
(* html' in this order, each once, whatever the exit status of each, and   *)
(* has returned without an exception.                                      *)
(***************************************************************************)
C28_CoverageIssuesThreeCommands ==
    pc = "done" /\ mode = "coverage" =>
        /\ error = ""
        /\ [k \in DOMAIN commands |-> commands[k].cmd]
              = << "coverage run", "coverage report", "coverage html" >>
        /\ \A k \in DOMAIN commands : commands[k].runs = 1

\* All three commands failed, and all three were issued.
C28_Witness ==
    /\ pc = "done"
    /\ mode = "coverage"
    /\ Len(commands) = 3
    /\ \A k \in 1..3 : ~commands[k].ok
    /\ commands[3].cmd = "coverage html"
    /\ error = ""

(***************************************************************************)
(* C29.  A unit test request for an id that is no key of the registry, or  *)
(* for a component whose UnitTestLocation is None, runs no test suite,     *)
(* keeps the success flag true and ends without SystemExit.                *)
(***************************************************************************)
C29_NothingToTestIsNoFailure ==
    /\ mode = "unittest"
    /\ pc \in {"unittest", "done"}
    /\ target # "all"
    /\ \/ target \notin DOMAIN components
       \/ components[target].UnitTestLocation = None
    => /\ suites = << >>
       /\ test_success
       /\ error = ""

\* The request named a component without a test location, in a registry
\* that also holds a component with one.
C29_Witness ==
    /\ mode = "unittest"
    /\ pc = "done"
    /\ target \in DOMAIN components
    /\ components[target].UnitTestLocation = None
    /\ \E c \in DOMAIN components : components[c].UnitTestLocation # None
    /\ suites = << >>
    /\ test_success
    /\ error = ""

(***************************************************************************)
(* C30.  The descriptor of a stored record has its three unit-test         *)
(* attributes configured together or not at all: UnitTestOutDir,           *)
(* UnitTestLogFormat and UnitTestLocation are all None, or all three are   *)
(* set, whichever of the keys outdir, logformat and testdir the record's   *)
(* unittest section has.  Stated of the code it fails: the three           *)
(* assignments share one try block, and the assignments before the first   *)
(* missing key stay.                                                       *)
(***************************************************************************)
C30_UnitTestAttributesTogether ==
    \A j \in Taken :
        LastStored(j) =>
            LET obj == components[file_list[j]["id"]]
            IN  \/ /\ obj.UnitTestOutDir = None
                   /\ obj.UnitTestLogFormat = None
                   /\ obj.UnitTestLocation = None
                \/ /\ obj.UnitTestOutDir # None
                   /\ obj.UnitTestLogFormat # None
                   /\ obj.UnitTestLocation # None

====
